---- MODULE Spec2Model ----
(***************************************************************************)
(* Model of Main.py: a TaskManager whose orchestration loop (main thread)  *)
(* prioritizes and dispatches tasks to four AI workers, each drained by    *)
(* its own AIThread.  Threads interleave at the granularity of the         *)
(* statements that touch shared state (task fields, worker queues, busy    *)
(* flags).  Strings are sequences of one-character strings so that         *)
(* lower() and the membership / substring tests are computed.              *)
(***************************************************************************)
EXTENDS Integers, Sequences, FiniteSets, TLC

\* ---------------------------------------------------------------- bounds
NumTasks == 2

\* consecutive runs of the prioritizer that are counted when it is exercised on its own
MaxRuns == 2

Tasks == 1..NumTasks

None == "None"

\* ------------------------------------------------------------- strings
\* str.lower() on one character of the model alphabet
LowerChar(c) ==
    CASE c = "A" -> "a"
      [] c = "M" -> "m"
      [] c = "R" -> "r"
      [] OTHER -> c

\* str.lower()
Lower(s) == [i \in 1..Len(s) |-> LowerChar(s[i])]

\* Python's  sub in text  on two strings
IsSubstring(sub, text) ==
    \E i \in 0..(Len(text) - Len(sub)) : SubSeq(text, i + 1, i + Len(sub)) = sub

\* ------------------------------------------------------------- workers
AINames == {"Jexi", "Nova", "Astra", "Sung"}

\* the capability lists of the four agents, each capability abbreviated to
\* two letters: "analyze data" = ad, "market research" = mr, ...
capabilities ==
    [ai \in AINames |->
        CASE ai = "Jexi"  -> {<<"a","d">>, <<"p","a">>, <<"d","c">>, <<"g","r">>}
          [] ai = "Nova"  -> {<<"x","e">>, <<"a","u">>, <<"t","b">>, <<"a","t">>}
          [] ai = "Astra" -> {<<"m","r">>, <<"c","s">>, <<"c","c">>, <<"t","r">>}
          [] ai = "Sung"  -> {<<"t","m">>, <<"c","e">>, <<"c","r">>, <<"d","o">>}]

\* descriptions a task may be created with: "Ad", "pa" and "mr" are a
\* capability up to case, "cMrx" contains one, "zz" contains none
DescriptionPool ==
    {<<"A","d">>, <<"p","a">>, <<"m","r">>, <<"c","M","r","x">>, <<"z","z">>}

\* deadlines a task may be created with: none, or a "%Y-%m-%d" date
DeadlinePool == {None, "2024-09-01"}

\* deadlines and current days (day of the year) used when the prioritizer is
\* exercised on its own: 1 or 2, 4 or 5, 10 or 11 days remain
CallDeadlinePool == {None, "2024-09-01", "2024-09-04", "2024-09-10"}
TodayPool == {243, 244}
PriorityPool == {1, 2, 3}
Statuses == {"Pending", "Assigned", "Completed", "Error"}

\* time.strptime(d, "%Y-%m-%d").tm_yday
tm_yday(d) ==
    CASE d = "2024-09-01" -> 245
      [] d = "2024-09-04" -> 248
      [] d = "2024-09-10" -> 254

VARIABLES
    description,         \* Task.description
    deadline,            \* Task.deadline
    dependencies,        \* Task.dependencies (ids of the tasks depended on)
    status,              \* Task.status
    assigned_to,         \* Task.assigned_to
    is_completed,        \* Task.is_completed
    tasks,               \* AI.tasks, the queue of each worker
    is_busy,             \* AI.is_busy
    performance_record,  \* AI.performance_record (descriptions; the elapsed time is left out)
    tpc,                 \* position of each AIThread.run
    cur,                 \* the local  task  of each AIThread.run
    mpc,                 \* position of the main loop
    idx,                 \* index of the main loop's  for task in task_manager.tasks
    suitable_ais,        \* local of assign_task
    chosen_ai,           \* local of assign_task
    diag,                \* the dispatch outcome logged for each task in the current cycle
    appended,            \* history: tasks appended to each worker's queue, in order
    dequeued,            \* history: tasks popped by each worker, in order
    priority,            \* Task.priority
    call                 \* the current day, and the last call made to the TaskManager

taskvars == <<description, deadline, dependencies, status, assigned_to, is_completed>>
callvars == <<priority, call>>
aivars   == <<tasks, is_busy, performance_record, tpc, cur>>
mainvars == <<mpc, idx, suitable_ais, chosen_ai, diag>>
histvars == <<appended, dequeued>>
vars     == <<taskvars, aivars, mainvars, histvars, callvars>>

\* ---------------------------------------------------------------- Task
\* variant: a dependency counts as soon as it has been dispatched
is_ready_to_execute_dispatched(t, done) ==
    \A dep \in dependencies[t] : done[dep] \/ status[dep] # "Pending"

\* the dependencies list of task t, in the order of creation
RECURSIVE SortedSeq(_)
SortedSeq(S) ==
    IF S = {} THEN <<>>
    ELSE LET m == CHOOSE x \in S : \A y \in S : x <= y
         IN  <<m>> \o SortedSeq(S \ {m})

\* Python's all() over dep.is_completed: False at the first false flag
RECURSIVE all_completed(_, _)
all_completed(deps, done) ==
    IF deps = <<>> THEN TRUE
    ELSE IF ~done[Head(deps)] THEN FALSE
    ELSE all_completed(Tail(deps), done)

\* variant: any() instead of all()
is_ready_to_execute_any(t, done) == \E dep \in dependencies[t] : done[dep]

\* variant: a dependency that ended in Error counts as settled
is_ready_to_execute_settled(t, done) ==
    \A dep \in dependencies[t] : done[dep] \/ status[dep] = "Error"

\* Task.is_ready_to_execute, over the completion flags  done
is_ready_to_execute(t, done) == all_completed(SortedSeq(dependencies[t]), done)

\* variant: a worker with a non-empty queue is not a candidate
IsSuitable_empty_queue(ai, t, busy) ==
    /\ Lower(description[t]) \in capabilities[ai]
    /\ ~busy[ai]
    /\ tasks[ai] = <<>>

\* the test of the list comprehension in assign_task
IsSuitable(ai, t, busy) ==
    /\ Lower(description[t]) \in capabilities[ai]
    /\ ~busy[ai]

\* variant: the record is appended inside the try block, so not after a failure
record_performance_in_try(rec, t) ==
    IF status[t] = "Error" THEN rec ELSE Append(rec, description[t])

\* AI.record_performance
record_performance(rec, t) == Append(rec, description[t])

\* variant: pop() takes the tail of the list
PopIndex_last(q) == Len(q)

\* the index AIThread.run pops from the queue: pop(0)
PopIndex(q) == 1

RemoveAt(q, i) == SubSeq(q, 1, i - 1) \o SubSeq(q, i + 1, Len(q))

\* json.dump raises TypeError on a Task object inside a dependencies list
SaveStateRaises == \E t \in Tasks : dependencies[t] # {}

\* line 48: struct_time - struct_time is not defined, Python raises TypeError
struct_time_sub(a, b) == [raised |-> TRUE, value |-> 0]

\* the loop of dynamic_prioritization from task i on; a TypeError leaves it
RECURSIVE prioritize_from(_, _, _, _, _)
prioritize_from(i, prio, st, dl, today) ==
    IF i > NumTasks THEN [priority |-> prio, raised |-> FALSE]
    ELSE IF st[i] = "Pending" /\ dl[i] # None
    THEN LET days_to_deadline == struct_time_sub(tm_yday(dl[i]), today)
         IN  IF days_to_deadline.raised THEN [priority |-> prio, raised |-> TRUE]
             ELSE IF days_to_deadline.value <= 2
                  THEN prioritize_from(i + 1, [prio EXCEPT ![i] = 1], st, dl, today)
             ELSE IF days_to_deadline.value <= 5
                  THEN prioritize_from(i + 1, [prio EXCEPT ![i] = 2], st, dl, today)
             ELSE prioritize_from(i + 1, prio, st, dl, today)
    ELSE prioritize_from(i + 1, prio, st, dl, today)

\* variant: no filter on status and deadline, every task becomes urgent
dynamic_prioritization_unfiltered(prio, st, dl, today) ==
    [priority |-> [t \in Tasks |-> 1], raised |-> FALSE]

\* variant: each run raises the urgency of a Pending task with a deadline by one level
dynamic_prioritization_bump(prio, st, dl, today) ==
    [priority |-> [t \in Tasks |->
                     IF st[t] = "Pending" /\ dl[t] # None /\ prio[t] > 1
                     THEN prio[t] - 1 ELSE prio[t]],
     raised |-> FALSE]

\* TaskManager.dynamic_prioritization: the priorities it leaves, and whether it raised
dynamic_prioritization(prio, st, dl, today) == prioritize_from(1, prio, st, dl, today)

\* struct_time - struct_time raises TypeError for the first Pending task with a deadline
PrioritizationRaises == dynamic_prioritization(priority, status, deadline, call.today).raised

\* Task.id of the i-th task of task_manager.tasks
TaskId(i) == i

\* the loop of update_task_status from task i on, with its break
RECURSIVE update_from(_, _, _, _)
update_from(i, st, task_id, new_status) ==
    IF i > NumTasks THEN st
    ELSE IF TaskId(i) = task_id THEN [st EXCEPT ![i] = new_status]
    ELSE update_from(i + 1, st, task_id, new_status)

\* variant: the assignment sits after the loop, so an unknown id hits the last task
update_task_status_after_loop(st, task_id, new_status) ==
    IF task_id \in Tasks THEN [st EXCEPT ![task_id] = new_status]
    ELSE [st EXCEPT ![NumTasks] = new_status]

\* TaskManager.update_task_status
update_task_status(st, task_id, new_status) == update_from(1, st, task_id, new_status)

\* the priorities the default tasks are created with
DefaultPriority(t) == IF t <= 2 THEN 1 ELSE 2

\* no call made yet
NoCall(today) ==
    [op |-> "none", id |-> 0, raised |-> FALSE, runs |-> 0, today |-> today]

\* ---------------------------------------------------------------- Init
Init ==
    /\ description \in [Tasks -> DescriptionPool]
    /\ deadline \in [Tasks -> DeadlinePool]
    /\ dependencies \in [Tasks -> SUBSET Tasks]
    /\ \A t \in Tasks : \A d \in dependencies[t] : d < t
    /\ status = [t \in Tasks |-> "Pending"]
    /\ assigned_to = [t \in Tasks |-> None]
    /\ is_completed = [t \in Tasks |-> FALSE]
    /\ tasks = [ai \in AINames |-> <<>>]
    /\ is_busy = [ai \in AINames |-> FALSE]
    /\ performance_record = [ai \in AINames |-> <<>>]
    /\ tpc = [ai \in AINames |-> "l109"]
    /\ cur = [ai \in AINames |-> 0]
    /\ mpc = "l160"
    /\ idx = 0
    /\ suitable_ais = {}
    /\ chosen_ai = None
    /\ diag = [t \in Tasks |-> "none"]
    /\ appended = [ai \in AINames |-> <<>>]
    /\ dequeued = [ai \in AINames |-> <<>>]
    /\ priority = [t \in Tasks |-> DefaultPriority(t)]
    /\ call = NoCall(244)

\* ------------------------------------------------- orchestration loop
\* line 160: dynamic_prioritization; the TypeError of line 48 is not a
\* KeyboardInterrupt, so it ends the main thread
DynamicPrioritization ==
    /\ mpc = "l160"
    /\ priority' = dynamic_prioritization(priority, status, deadline, call.today).priority
    /\ IF PrioritizationRaises
         THEN /\ mpc' = "crashed"
              /\ UNCHANGED <<idx, diag>>
         ELSE /\ mpc' = "l162"
              /\ idx' = 1
              /\ diag' = [t \in Tasks |-> "none"]
    /\ UNCHANGED <<taskvars, aivars, suitable_ais, chosen_ai, histvars, call>>

\* lines 162-164: the task is Pending, assign_task is called
LoopPending ==
    /\ mpc = "l162"
    /\ idx \in Tasks
    /\ status[idx] = "Pending"
    /\ mpc' = "l55"
    /\ UNCHANGED <<taskvars, aivars, idx, suitable_ais, chosen_ai, diag, histvars>>
    /\ UNCHANGED callvars

\* lines 165-166 and update_task_status (67-71)
LoopReconcile ==
    /\ mpc = "l162"
    /\ idx \in Tasks
    /\ status[idx] = "Assigned" /\ is_completed[idx]
    /\ status' = update_task_status(status, TaskId(idx), "Completed")
    /\ idx' = idx + 1
    /\ UNCHANGED <<description, deadline, dependencies, assigned_to, is_completed,
                   aivars, mpc, suitable_ais, chosen_ai, diag, histvars>>
    /\ UNCHANGED callvars

\* lines 162-166: neither branch applies
LoopSkip ==
    /\ mpc = "l162"
    /\ idx \in Tasks
    /\ status[idx] # "Pending"
    /\ ~(status[idx] = "Assigned" /\ is_completed[idx])
    /\ idx' = idx + 1
    /\ UNCHANGED <<taskvars, aivars, mpc, suitable_ais, chosen_ai, diag, histvars>>
    /\ UNCHANGED callvars

\* line 55: the list comprehension reads every worker's busy flag
AssignCandidates ==
    /\ mpc = "l55"
    /\ suitable_ais' = {ai \in AINames : IsSuitable(ai, idx, is_busy)}
    /\ mpc' = "l56"
    /\ UNCHANGED <<taskvars, aivars, idx, chosen_ai, diag, histvars>>
    /\ UNCHANGED callvars

\* lines 56-57: the test succeeds, random.choice picks among the candidates
AssignChoose ==
    /\ mpc = "l56"
    /\ suitable_ais # {} /\ is_ready_to_execute(idx, is_completed)
    /\ \E ai \in suitable_ais : chosen_ai' = ai
    /\ suitable_ais' = {}
    /\ mpc' = "l58"
    /\ UNCHANGED <<taskvars, aivars, idx, diag, histvars>>
    /\ UNCHANGED callvars

\* variant: the dispatcher marks the chosen worker busy when it appends
AssignAppend_sets_busy ==
    /\ mpc = "l58"
    /\ tasks' = [tasks EXCEPT ![chosen_ai] = Append(@, idx)]
    /\ appended' = [appended EXCEPT ![chosen_ai] = Append(@, idx)]
    /\ is_busy' = [is_busy EXCEPT ![chosen_ai] = TRUE]
    /\ mpc' = "l59"
    /\ UNCHANGED <<taskvars, performance_record, tpc, cur,
                   idx, suitable_ais, chosen_ai, diag, dequeued>>
    /\ UNCHANGED callvars

\* line 58: append to the chosen worker's queue
AssignAppend ==
    /\ mpc = "l58"
    /\ tasks' = [tasks EXCEPT ![chosen_ai] = Append(@, idx)]
    /\ appended' = [appended EXCEPT ![chosen_ai] = Append(@, idx)]
    /\ mpc' = "l59"
    /\ UNCHANGED <<taskvars, is_busy, performance_record, tpc, cur,
                   idx, suitable_ais, chosen_ai, diag, dequeued>>
    /\ UNCHANGED callvars

\* line 59
AssignSetWorker ==
    /\ mpc = "l59"
    /\ assigned_to' = [assigned_to EXCEPT ![idx] = chosen_ai]
    /\ mpc' = "l60"
    /\ UNCHANGED <<description, deadline, dependencies, status, is_completed,
                   aivars, idx, suitable_ais, chosen_ai, diag, histvars>>
    /\ UNCHANGED callvars

\* lines 60-61: the status is written last; back to the for loop
AssignSetStatus ==
    /\ mpc = "l60"
    /\ status' = [status EXCEPT ![idx] = "Assigned"]
    /\ diag' = [diag EXCEPT ![idx] = "assigned"]
    /\ chosen_ai' = None
    /\ idx' = idx + 1
    /\ mpc' = "l162"
    /\ UNCHANGED <<description, deadline, dependencies, assigned_to, is_completed,
                   aivars, suitable_ais, histvars>>
    /\ UNCHANGED callvars

\* lines 56, 62-65: the test fails; readiness is evaluated again at line 62
AssignNone ==
    /\ mpc = "l56"
    /\ ~(suitable_ais # {} /\ is_ready_to_execute(idx, is_completed))
    /\ diag' = [diag EXCEPT ![idx] =
                  IF ~is_ready_to_execute(idx, is_completed) THEN "waiting" ELSE "nosuitable"]
    /\ suitable_ais' = {}
    /\ idx' = idx + 1
    /\ mpc' = "l162"
    /\ UNCHANGED <<taskvars, aivars, chosen_ai, histvars>>
    /\ UNCHANGED callvars

\* lines 168-171: the for loop is exhausted; visualize, save_state, sleep.
\* save_state's TypeError ends the main thread like that of line 48
EndCycle ==
    /\ mpc = "l162"
    /\ idx = NumTasks + 1
    /\ mpc' = IF SaveStateRaises THEN "crashed" ELSE "l160"
    /\ idx' = 0
    /\ UNCHANGED <<taskvars, aivars, suitable_ais, chosen_ai, diag, histvars>>
    /\ UNCHANGED callvars

\* ------------------------------------------------------ AIThread.run
\* lines 109-110: the queue is non-empty, pop(0)
Dequeue(ai) ==
    /\ tpc[ai] = "l109"
    /\ tasks[ai] # <<>>
    /\ cur' = [cur EXCEPT ![ai] = tasks[ai][PopIndex(tasks[ai])]]
    /\ tasks' = [tasks EXCEPT ![ai] = RemoveAt(@, PopIndex(@))]
    /\ dequeued' = [dequeued EXCEPT ![ai] = Append(@, tasks[ai][PopIndex(tasks[ai])])]
    /\ tpc' = [tpc EXCEPT ![ai] = "l111"]
    /\ UNCHANGED <<taskvars, is_busy, performance_record, mainvars, appended>>
    /\ UNCHANGED callvars

\* lines 111-112
SetBusy(ai) ==
    /\ tpc[ai] = "l111"
    /\ is_busy' = [is_busy EXCEPT ![ai] = TRUE]
    /\ tpc' = [tpc EXCEPT ![ai] = "l115"]
    /\ UNCHANGED <<taskvars, tasks, performance_record, cur, mainvars, histvars>>
    /\ UNCHANGED callvars

\* lines 114-118: random.choice gave False, the completion flag is set
ExecuteSucceed(ai) ==
    /\ tpc[ai] = "l115"
    /\ is_completed' = [is_completed EXCEPT ![cur[ai]] = TRUE]
    /\ tpc' = [tpc EXCEPT ![ai] = "l119"]
    /\ UNCHANGED <<description, deadline, dependencies, status, assigned_to,
                   tasks, is_busy, performance_record, cur, mainvars, histvars>>
    /\ UNCHANGED callvars

\* lines 119-120
SetCompleted(ai) ==
    /\ tpc[ai] = "l119"
    /\ status' = [status EXCEPT ![cur[ai]] = "Completed"]
    /\ tpc' = [tpc EXCEPT ![ai] = "l124"]
    /\ UNCHANGED <<description, deadline, dependencies, assigned_to, is_completed,
                   tasks, is_busy, performance_record, cur, mainvars, histvars>>
    /\ UNCHANGED callvars

\* lines 114-117, 121-122 and handle_errors (73-75): random.choice gave True
ExecuteFail(ai) ==
    /\ tpc[ai] = "l115"
    /\ status' = [status EXCEPT ![cur[ai]] = "Error"]
    /\ tpc' = [tpc EXCEPT ![ai] = "l124"]
    /\ UNCHANGED <<description, deadline, dependencies, assigned_to, is_completed,
                   tasks, is_busy, performance_record, cur, mainvars, histvars>>
    /\ UNCHANGED callvars

\* variant: the reset sits at the end of the try block, skipped by a failure
Finally_in_try(ai) ==
    /\ tpc[ai] = "l124"
    /\ is_busy' = [is_busy EXCEPT ![ai] = (status[cur[ai]] = "Error")]
    /\ tpc' = [tpc EXCEPT ![ai] = "l126"]
    /\ UNCHANGED <<taskvars, tasks, performance_record, cur, mainvars, histvars>>
    /\ UNCHANGED callvars

\* lines 123-124: the finally block resets the busy flag on both paths
Finally(ai) ==
    /\ tpc[ai] = "l124"
    /\ is_busy' = [is_busy EXCEPT ![ai] = FALSE]
    /\ tpc' = [tpc EXCEPT ![ai] = "l126"]
    /\ UNCHANGED <<taskvars, tasks, performance_record, cur, mainvars, histvars>>
    /\ UNCHANGED callvars

\* lines 125-126: record_performance, then back to the top of the loop
RecordPerformance(ai) ==
    /\ tpc[ai] = "l126"
    /\ performance_record' = [performance_record EXCEPT ![ai] = record_performance(@, cur[ai])]
    /\ cur' = [cur EXCEPT ![ai] = 0]
    /\ tpc' = [tpc EXCEPT ![ai] = "l109"]
    /\ UNCHANGED <<taskvars, tasks, is_busy, mainvars, histvars>>
    /\ UNCHANGED callvars

Next ==
    \/ DynamicPrioritization
    \/ LoopPending
    \/ LoopReconcile
    \/ LoopSkip
    \/ AssignCandidates
    \/ AssignChoose
    \/ AssignAppend
    \/ AssignSetWorker
    \/ AssignSetStatus
    \/ AssignNone
    \/ EndCycle
    \/ \E ai \in AINames : Dequeue(ai)
    \/ \E ai \in AINames : SetBusy(ai)
    \/ \E ai \in AINames : ExecuteSucceed(ai)
    \/ \E ai \in AINames : SetCompleted(ai)
    \/ \E ai \in AINames : ExecuteFail(ai)
    \/ \E ai \in AINames : Finally(ai)
    \/ \E ai \in AINames : RecordPerformance(ai)

Spec == Init /\ [][Next]_vars

\* ------------------------------------- the TaskManager's operations, called one by one
\* a task collection with every deadline, a common priority and a current day
CallInit ==
    /\ description = [t \in Tasks |-> <<"z","z">>]
    /\ deadline \in [Tasks -> CallDeadlinePool]
    /\ dependencies = [t \in Tasks |-> {}]
    /\ status = [t \in Tasks |-> "Pending"]
    /\ assigned_to = [t \in Tasks |-> None]
    /\ is_completed = [t \in Tasks |-> FALSE]
    /\ tasks = [ai \in AINames |-> <<>>]
    /\ is_busy = [ai \in AINames |-> FALSE]
    /\ performance_record = [ai \in AINames |-> <<>>]
    /\ tpc = [ai \in AINames |-> "l109"]
    /\ cur = [ai \in AINames |-> 0]
    /\ mpc = "call"
    /\ idx = 0
    /\ suitable_ais = {}
    /\ chosen_ai = None
    /\ diag = [t \in Tasks |-> "none"]
    /\ appended = [ai \in AINames |-> <<>>]
    /\ dequeued = [ai \in AINames |-> <<>>]
    /\ priority \in {[t \in Tasks |-> p] : p \in PriorityPool}
    /\ call \in {NoCall(today) : today \in TodayPool}

\* task_manager.dynamic_prioritization()
CallPrioritize ==
    LET r == dynamic_prioritization(priority, status, deadline, call.today)
    IN  /\ mpc = "call"
        /\ priority' = r.priority
        /\ call' = [call EXCEPT !.op = "prio", !.id = 0, !.raised = r.raised,
                                !.runs = IF @ < MaxRuns THEN @ + 1 ELSE @]
        /\ UNCHANGED <<taskvars, aivars, mainvars, histvars>>

\* task_manager.update_task_status(task_id, new_status), the id known or not
CallUpdateStatus ==
    /\ mpc = "call"
    /\ \E task_id \in 0..(NumTasks + 1), new_status \in Statuses :
         /\ status' = update_task_status(status, task_id, new_status)
         /\ call' = [call EXCEPT !.op = "update", !.id = task_id, !.raised = FALSE, !.runs = 0]
    /\ UNCHANGED <<description, deadline, dependencies, assigned_to, is_completed,
                   aivars, mainvars, histvars, priority>>

CallNext ==
    \/ CallPrioritize
    \/ CallUpdateStatus

CallSpec == CallInit /\ [][CallNext]_vars

TypeOK ==
    /\ status \in [Tasks -> {"Pending", "Assigned", "Completed", "Error"}]
    /\ assigned_to \in [Tasks -> AINames \cup {None}]
    /\ mpc \in {"l160", "l162", "l55", "l56", "l58", "l59", "l60", "crashed", "call"}
    /\ tpc \in [AINames -> {"l109", "l111", "l115", "l119", "l124", "l126"}]

\* ============================================================ properties
InSeq(x, s) == \E i \in DOMAIN s : s[i] = x

\* t has been appended to some worker's queue
Placed(t) == \E ai \in AINames : InSeq(t, appended[ai])

\* t is appended to some queue in this step
NewlyAppended(t) == \E ai \in AINames : appended'[ai] = Append(appended[ai], t)

\* how many times t is held: positions in queues plus threads executing it
HeldCount(t) ==
    Cardinality({p \in AINames \X (1..NumTasks) :
                    p[2] \in DOMAIN tasks[p[1]] /\ tasks[p[1]][p[2]] = t})
    + Cardinality({ai \in AINames : cur[ai] = t})

\* the matching of the written contract: a capability is a case-insensitive
\* substring of the description
SubstringMatch(ai, t) ==
    \E cap \in capabilities[ai] : IsSubstring(Lower(cap), Lower(description[t]))

\* the matching of line 55
MembershipMatch(ai, t) == Lower(description[t]) \in capabilities[ai]

\* ------------------------------------------------------------------ C1
\* C1: a task that is no longer Pending, or that was ever placed in a
\* queue, has all its dependencies completed; and no step takes a task with
\* an incomplete dependency out of Pending or appends it to a queue.
C1_DependencyOrdering ==
    /\ [](\A t \in Tasks :
            (status[t] # "Pending" \/ Placed(t) \/ HeldCount(t) > 0)
                => is_ready_to_execute(t, is_completed))
    /\ [][\A t \in Tasks :
            ~(\A dep \in dependencies[t] : is_completed[dep])
                => status'[t] = "Pending" /\ ~NewlyAppended(t)]_vars

\* a task with a dependency has been dispatched
C1_Witness ==
    \E t \in Tasks :
        /\ dependencies[t] # {}
        /\ status[t] = "Assigned"
        /\ Placed(t)

\* ------------------------------------------------------------------ C2
\* C2: once a task's status is Assigned, Completed or Error it is not
\* appended to any queue and its assigned_to does not change; a task is
\* held by at most one worker and at most once.
C2_NoReassignment ==
    /\ [](\A t \in Tasks : HeldCount(t) <= 1)
    /\ [][\A t \in Tasks :
            status[t] \in {"Assigned", "Completed", "Error"}
                => assigned_to'[t] = assigned_to[t] /\ ~NewlyAppended(t)]_vars

\* ------------------------------------------------------------------ C3
\* the scenario: a has no dependencies, b depends on a alone, and each has
\* a worker the dispatcher accepts for it
C3_Scenario(a, b) ==
    /\ dependencies[a] = {}
    /\ dependencies[b] = {a}
    /\ \E ai \in AINames : MembershipMatch(ai, a)
    /\ \E ai \in AINames : MembershipMatch(ai, b)

\* C3: in the scenario b is never placed while a's completion flag is
\* false, and once a has completed b is eventually placed in the queue of a
\* worker capable of b.  The main loop never leaves "crashed", so the
\* eventuality requires b to be placed by the time the loop has ended.
C3_DependentScenario ==
    \A a, b \in Tasks :
        C3_Scenario(a, b) =>
            /\ ~is_completed[a] => ~Placed(b)
            /\ (is_completed[a] /\ mpc = "crashed") =>
                   \E ai \in AINames : MembershipMatch(ai, b) /\ InSeq(b, appended[ai])

\* ------------------------------------------------------------------ C4
\* C4: a status written by a worker loop (Completed or Error) is never
\* overwritten afterwards; the write of Assigned never lands on it.
C4_NoLostStatus ==
    [][\A t \in Tasks :
          status[t] \in {"Completed", "Error"} => status'[t] = status[t]]_vars

\* ------------------------------------------------------------------ C5
\* C5: a failed task has status Error and completion flag false, and from
\* then on keeps both and is never appended to a queue again.
C5_ErrorTerminal ==
    /\ [](\A t \in Tasks : status[t] = "Error" => ~is_completed[t])
    /\ [][\A t \in Tasks :
            status[t] = "Error"
                => status'[t] = "Error" /\ ~is_completed'[t] /\ ~NewlyAppended(t)]_vars

\* ------------------------------------------------------------------ C6
\* C6: the busy flag is false at the top of the loop and after the
\* finally block, and is true only between the dequeue and the finally
\* block, with a task in hand.
C6_NoStuckBusy ==
    \A ai \in AINames :
        /\ tpc[ai] \in {"l109", "l126"} => ~is_busy[ai]
        /\ is_busy[ai] => tpc[ai] \in {"l115", "l119", "l124"} /\ cur[ai] \in Tasks

\* a worker is back at the top of its loop after a failed execution
C6_Witness ==
    \E ai \in AINames :
        /\ tpc[ai] = "l109"
        /\ ~is_busy[ai]
        /\ \E i \in DOMAIN dequeued[ai] : status[dequeued[ai][i]] = "Error"

\* ------------------------------------------------------------------ C7
\* C7: a worker's performance record lists the descriptions of the tasks
\* it has finished handling (those it dequeued, less the one in hand), in
\* the order it dequeued them.
C7_PerformanceAccounting ==
    \A ai \in AINames :
        LET finished == Len(dequeued[ai]) - (IF tpc[ai] = "l109" THEN 0 ELSE 1)
        IN  performance_record[ai] =
                [i \in 1..finished |-> description[dequeued[ai][i]]]

\* a worker has recorded two tasks of different descriptions, one of them failed
C7_Witness ==
    \E ai \in AINames :
        /\ Len(performance_record[ai]) = 2
        /\ performance_record[ai][1] # performance_record[ai][2]
        /\ \E i \in DOMAIN dequeued[ai] : status[dequeued[ai][i]] = "Error"

\* ------------------------------------------------------------------ C8
\* C8: each worker dequeues in the order of the appends to its queue: what
\* it has dequeued, followed by what is still queued, is what was appended;
\* and it dequeues a task only after recording the previous one.
C8_FIFO ==
    \A ai \in AINames :
        /\ appended[ai] = dequeued[ai] \o tasks[ai]
        /\ Len(performance_record[ai]) >= Len(dequeued[ai]) - 1

\* a worker has dequeued two tasks and recorded both
C8_Witness ==
    \E ai \in AINames :
        /\ Len(dequeued[ai]) = 2
        /\ Len(performance_record[ai]) = 2

\* ------------------------------------------------------------------ C9
\* C9: the candidate set computed at line 55 is exactly the set of workers
\* that are not busy and have a capability that is a case-insensitive
\* substring of the task's description.
C9_CandidateMatching ==
    [][(mpc = "l55" /\ mpc' = "l56")
          => suitable_ais' = {ai \in AINames : ~is_busy[ai] /\ SubstringMatch(ai, idx)}]_vars

\* ----------------------------------------------------------------- C10
C10_Unmatched(t) == \A ai \in AINames : ~SubstringMatch(ai, t)

\* C10: a dependency-ready task that matches no capability stays Pending,
\* unassigned and unqueued; the orchestration loop keeps running, and each
\* cycle that has passed the task has reported "no suitable worker" for it.
C10_UnmatchedStaysPending ==
    \A t \in Tasks :
        (C10_Unmatched(t) /\ is_ready_to_execute(t, is_completed)) =>
            /\ status[t] = "Pending"
            /\ assigned_to[t] = None
            /\ ~Placed(t)
            /\ mpc # "crashed"
            /\ (mpc = "l162" /\ idx > t /\ dependencies[t] = {}) => diag[t] = "nosuitable"

\* ----------------------------------------------------------------- C11
\* the days remaining as the policy means them
C11_DaysRemaining(t) == tm_yday(deadline[t]) - call.today

\* C11: one run of dynamic_prioritization completes normally and gives every
\* Pending task with a deadline priority 1 when at most 2 days remain,
\* priority 2 when at most 5 remain, and its old priority otherwise.
C11_PrioritizerPolicy ==
    [][CallPrioritize =>
          /\ ~call'.raised
          /\ \A t \in Tasks :
                (status[t] = "Pending" /\ deadline[t] # None) =>
                    priority'[t] = IF C11_DaysRemaining(t) <= 2 THEN 1
                                   ELSE IF C11_DaysRemaining(t) <= 5 THEN 2
                                   ELSE priority[t]]_vars

\* ----------------------------------------------------------------- C12
\* C12: a run of dynamic_prioritization that directly follows another, on
\* the same day, changes no field of any task and ends as the first did.
C12_PrioritizationIdempotent ==
    [][(CallPrioritize /\ call.op = "prio") =>
          /\ priority' = priority
          /\ call'.raised = call.raised
          /\ UNCHANGED taskvars]_vars

\* two runs in succession over a collection with a Pending task that has a deadline
C12_Witness ==
    /\ call.op = "prio"
    /\ call.runs >= 2
    /\ \E t \in Tasks : status[t] = "Pending" /\ deadline[t] # None

\* ----------------------------------------------------------------- C13
\* C13: is_ready_to_execute is true exactly when every dependency has its
\* completion flag true, whatever the dependencies' statuses, and is true
\* for a task without dependencies.
C13_Readiness ==
    \A t \in Tasks :
        /\ is_ready_to_execute(t, is_completed)
                <=> (\A dep \in dependencies[t] : is_completed[dep])
        /\ dependencies[t] = {} => is_ready_to_execute(t, is_completed)
        /\ (\E dep \in dependencies[t] :
                status[dep] \in {"Error", "Assigned"} /\ ~is_completed[dep])
                => ~is_ready_to_execute(t, is_completed)

\* a task is not ready because its dependency ended in Error
C13_Witness ==
    \E t \in Tasks : \E dep \in dependencies[t] :
        /\ status[dep] = "Error"
        /\ ~is_completed[dep]
        /\ ~is_ready_to_execute(t, is_completed)

\* ----------------------------------------------------------------- C14
\* C14: update_task_status with an id no task has changes nothing; with a
\* known id it changes the status of the task with that id and nothing else.
C14_UpdateTaskStatus ==
    [][CallUpdateStatus =>
          /\ UNCHANGED <<description, deadline, dependencies, assigned_to,
                         is_completed, priority>>
          /\ (\A t \in Tasks : TaskId(t) # call'.id) => status' = status
          /\ \A t \in Tasks :
                TaskId(t) = call'.id =>
                    \E new_status \in Statuses : status' = [status EXCEPT ![t] = new_status]]_vars

\* the last call had an unknown id, an earlier one a known id
C14_Witness ==
    /\ call.op = "update"
    /\ \A t \in Tasks : TaskId(t) # call.id
    /\ \E t \in Tasks : status[t] # "Pending"

\* ----------------------------------------------------------------- C15
\* C15: a successful assignment picks a member of the candidate set, appends
\* the task at the tail of that worker's queue only, then sets the task's
\* assigned_to to that worker and its status to Assigned; these steps change
\* no other queue, no busy flag, no performance record and no other task.
C15_AssignEffectAndFrame ==
    [][/\ (mpc = "l56" /\ mpc' = "l58") =>
             /\ chosen_ai' \in suitable_ais
             /\ UNCHANGED <<taskvars, tasks, is_busy, performance_record, priority>>
       /\ (mpc = "l58" /\ mpc' = "l59") =>
             /\ tasks' = [tasks EXCEPT ![chosen_ai] = tasks[chosen_ai] \o <<idx>>]
             /\ UNCHANGED <<taskvars, is_busy, performance_record, priority>>
       /\ (mpc = "l59" /\ mpc' = "l60") =>
             /\ assigned_to' = [assigned_to EXCEPT ![idx] = chosen_ai]
             /\ UNCHANGED <<status, is_completed, dependencies, description, deadline,
                            tasks, is_busy, performance_record, priority>>
       /\ (mpc = "l60" /\ mpc' = "l162") =>
             /\ status' = [status EXCEPT ![idx] = "Assigned"]
             /\ UNCHANGED <<assigned_to, is_completed, dependencies, description, deadline,
                            tasks, is_busy, performance_record, priority>>]_vars

\* a task is Assigned and sits at the tail of the queue of the worker it names
C15_Witness ==
    \E t \in Tasks : \E ai \in AINames :
        /\ status[t] = "Assigned"
        /\ assigned_to[t] = ai
        /\ tasks[ai] # <<>>
        /\ tasks[ai][Len(tasks[ai])] = t

\* ----------------------------------------------------------------- C16
\* C16: dynamic_prioritization changes no status, dependencies, assigned
\* worker or completion flag, and keeps the priority of every task that has
\* no deadline or is not Pending.
C16_PrioritizerFrame ==
    [][CallPrioritize =>
          /\ UNCHANGED <<status, dependencies, assigned_to, is_completed>>
          /\ \A t \in Tasks :
                (deadline[t] = None \/ status[t] # "Pending") => priority'[t] = priority[t]]_vars

\* the prioritizer has run over a task without deadline and a task that is not Pending
C16_Witness ==
    /\ call.op = "prio"
    /\ \E t \in Tasks : deadline[t] = None /\ priority[t] # 1
    /\ \E t \in Tasks : status[t] # "Pending" /\ deadline[t] # None /\ priority[t] # 1

\* ----------------------------------------------------------------- C17
\* C17: no step of assign_task changes a busy flag, and a matching worker
\* whose busy flag is false is a candidate whatever its queue holds; so a
\* worker whose busy flag is false can hold two tasks in its queue.
C17_MultiTaskWindow ==
    [][/\ (mpc \in {"l55", "l56", "l58", "l59", "l60"} /\ mpc' # mpc) => is_busy' = is_busy
       /\ (mpc = "l55" /\ mpc' = "l56") =>
             \A ai \in AINames :
                (MembershipMatch(ai, idx) /\ ~is_busy[ai]) => ai \in suitable_ais']_vars

\* a worker whose busy flag is false holds two tasks in its queue
C17_Witness ==
    \E ai \in AINames : ~is_busy[ai] /\ Len(tasks[ai]) >= 2

\* ----------------------------------------------------------------- C18
\* C18: a task that is Assigned and not completed is in the queue of the
\* worker named by its assigned_to, or in that worker's hands.
C18_NoOrphanedAssignment ==
    \A t \in Tasks :
        (status[t] = "Assigned" /\ ~is_completed[t]) =>
            /\ assigned_to[t] \in AINames
            /\ InSeq(t, tasks[assigned_to[t]]) \/ cur[assigned_to[t]] = t

\* ----------------------------------------------------------------- C19
\* C19: when assign_task appends a task to a worker's queue, that worker's
\* busy flag is false and the worker is at the top of its loop, with no
\* dequeued task in hand.
C19_DispatchOnlyToIdle ==
    [][(mpc = "l58" /\ mpc' = "l59") =>
          /\ ~is_busy[chosen_ai]
          /\ tpc[chosen_ai] = "l109"
          /\ cur[chosen_ai] = 0]_vars

\* ----------------------------------------------------------------- C20
\* the tasks t depends on, directly or through other tasks
RECURSIVE C20_TransitiveDeps(_)
C20_TransitiveDeps(t) ==
    dependencies[t] \cup UNION {C20_TransitiveDeps(d) : d \in dependencies[t]}

\* d was dequeued and its execution ended without completion: d has reached
\* Error, whatever was written over that status since
C20_HasFailed(d) ==
    /\ \E ai \in AINames : InSeq(d, dequeued[ai])
    /\ ~is_completed[d]
    /\ \A ai \in AINames : cur[ai] = d => tpc[ai] \notin {"l111", "l115"}

====
